---- MODULE Spec2Model ----
(***************************************************************************)
(* Chou-Orlandi base OT: the Sender of                                     *)
(* crates/mpz-ot-core/src/chou_orlandi/sender.rs, driven by arbitrary      *)
(* send calls and by a Receiver that follows section 4.5 of the            *)
(* specification.  The Ristretto group is abstracted by the additive       *)
(* group Z_GroupOrder with base point 1, a Block by a BlockBits-wide       *)
(* integer, and the stream of scalars a seeded RNG yields by Prg.          *)
(***************************************************************************)
EXTENDS Integers, Sequences, FiniteSets, TLC

\* ------------------------------------------------------------------ bounds
GroupOrder == 3      \* order of the abstract group
BlockBits == 4       \* width of an abstract Block
MaxBatch == 2        \* longest batch / input vector of one call
MaxCounter == 3      \* cap on the number of OTs served in a run
MaxId == 3           \* cap on the transfer ids
NumSeeds == 2        \* number of distinct RNG seeds
UsizeBits == 2       \* width of the abstract usize the counter is kept in

\* ------------------------------------------------------------- constants
ByteBits == 8        \* bits of a u8, yielded LSB first by into_iter_lsb0

\* -------------------------------------------------------------- data sets
Scalars == 0 .. GroupOrder - 1
Seeds == 0 .. NumSeeds - 1
Ids == 0 .. MaxId

RECURSIVE Pow2(_)
Pow2(n) == IF n = 0 THEN 1 ELSE 2 * Pow2(n - 1)

SeqsUpTo(S, n) == UNION {[1 .. k -> S] : k \in 0 .. n}

\* The inputs the callers offer to send, one vector for each length: pairs
\* [Block; 2], here <<m0, m1>>, every block of a vector a different one.
InputVec(k) == [j \in 1 .. k |-> <<(2 * j) - 1, 2 * j>>]
InputVecs == {InputVec(k) : k \in 0 .. MaxBatch}

\* ReceiverReveal.choices: a byte vector.  The bytes offered have their low
\* MaxCounter bits free, enough for the longest tape.
RevealBytes == 0 .. Pow2(MaxCounter) - 1
Reveals == {<<>>} \cup {<<b>> : b \in RevealBytes}

\* --------------------------------------------------------- group, blocks
G == 1
PointAdd(P, Q) == (P + Q) % GroupOrder
PointSub(P, Q) == (P + GroupOrder - Q) % GroupOrder
ScalarMul(s, P) == (s * P) % GroupOrder

RECURSIVE BlockXor(_, _)
BlockXor(x, y) ==
    IF x = 0 THEN y
    ELSE IF y = 0 THEN x
    ELSE (((x % 2) + (y % 2)) % 2) + (2 * BlockXor(x \div 2, y \div 2))

\* hash_point(point, tweak): a Block determined by the point and the tweak.
hash_point(P, tweak) == (P + (GroupOrder * tweak)) % Pow2(BlockBits)

\* The i-th scalar (i = 0, 1, ...) of the RNG stream seeded with seed.
Prg(seed, i) == (seed + (i * (seed + 1))) % GroupOrder

\* TransferId::next(&mut self): yields the stored id and advances it.
TransferIdNext(t) == [value |-> t, stored |-> t + 1]

\* ------------------------------------------------------- sender, pure part
\* The tweak of OT instance i (0-based) of a batch served at offset.
\* offset + i is a usize sum: without overflow checks it wraps at the width.
Tweak_NoIndex(offset, i) == offset

Tweak(offset, i) == (offset + i) % Pow2(UsizeBits)

\* The two keys of one OT instance.
KeyPair_NoSub(private_key, ys, blinded_choice, tweak) ==
    LET yr == ScalarMul(private_key, blinded_choice)
    IN  <<hash_point(yr, tweak), hash_point(yr, tweak)>>

KeyPair(private_key, ys, blinded_choice, tweak) ==
    LET yr == ScalarMul(private_key, blinded_choice)
    IN  <<hash_point(yr, tweak), hash_point(PointSub(yr, ys), tweak)>>

\* The tweaks of a batch, in order: (offset + i) for i over enumerate().
BatchTweaks(blinded_choices, offset) ==
    [j \in 1 .. Len(blinded_choices) |-> Tweak(offset, j - 1)]

compute_encryption_keys(private_key, public_key, blinded_choices, offset) ==
    LET ys == ScalarMul(private_key, public_key)
        tw == BatchTweaks(blinded_choices, offset)
    IN  [j \in 1 .. Len(blinded_choices) |->
            KeyPair(private_key, ys, blinded_choices[j], tw[j])]

\* payload[k] = input[k] ^ payload[k] over the zip of inputs and keys.
Encrypt(inputs, keys) ==
    [j \in 1 .. Len(keys) |->
        IF j <= Len(inputs)
        THEN <<BlockXor(inputs[j][1], keys[j][1]), BlockXor(inputs[j][2], keys[j][2])>>
        ELSE keys[j]]

\* Sender::new, Sender::new_with_seed: a tape iff config.receiver_commit().
NewTape_Always(config) == [some |-> TRUE, receiver_choices |-> <<>>]

NewTape(config) == [some |-> config.receiver_commit, receiver_choices |-> <<>>]

\* tape.receiver_choices.extend_from_slice(&blinded_choices), if a tape exists.
ExtendTape_Overwrite(tape, blinded_choices) ==
    IF tape.some
    THEN [tape EXCEPT !.receiver_choices = blinded_choices]
    ELSE tape

ExtendTape(tape, blinded_choices) ==
    IF tape.some
    THEN [tape EXCEPT !.receiver_choices = @ \o blinded_choices]
    ELSE tape

\* *counter += inputs.len(), a usize sum: without overflow checks it wraps.
AdvanceCounter_ByOne(counter, inputs) == counter + 1

AdvanceCounter(counter, inputs) == (counter + Len(inputs)) % Pow2(UsizeBits)

\* Whether serving n more OTs at counter takes a usize sum past usize::MAX:
\* offset + i in compute_encryption_keys, or counter + n in send.
Overflows(counter, n) == counter + n > Pow2(UsizeBits) - 1

\* The outcome of the two checks of send, the id first and the count second.
Precheck_CountFirst(id, expected_id, n_inputs, n_choices) ==
    IF n_inputs # n_choices THEN "CountMismatch"
    ELSE IF id # expected_id THEN "IdMismatch"
    ELSE "Ok"

Precheck(id, expected_id, n_inputs, n_choices) ==
    IF id # expected_id THEN "IdMismatch"
    ELSE IF n_inputs # n_choices THEN "CountMismatch"
    ELSE "Ok"

\* The stored transfer id after send: current_id borrows the stored id
\* mutably and next() runs before the checks, so its advance stays whatever
\* the outcome.  nx is what next() gave.
current_id_after_OkOnly(nx, outcome) == IF outcome = "Ok" THEN nx.stored ELSE nx.value

current_id_after(nx, outcome) == nx.stored

\* The tape after send: both checks return before the tape is extended.
tape_after_Always(tape, blinded_choices, outcome) == ExtendTape(tape, blinded_choices)

tape_after(tape, blinded_choices, outcome) ==
    IF outcome = "Ok" THEN ExtendTape(tape, blinded_choices) ELSE tape

\* ------------------------------------------------------ verify_choices
Min(a, b) == IF a <= b THEN a ELSE b

\* choices.into_iter_lsb0(): ByteBits bits per byte, least significant first.
BitsLsb0(bytes) ==
    [j \in 1 .. Len(bytes) * ByteBits |->
        ((bytes[((j - 1) \div ByteBits) + 1] \div Pow2((j - 1) % ByteBits)) % 2) = 1]

\* .into_iter_lsb0().take(tape.receiver_choices.len()).collect()
TruncatedChoices_NoTake(reveal, n) == BitsLsb0(reveal)

TruncatedChoices(reveal, n) ==
    LET bits == BitsLsb0(reveal) IN SubSeq(bits, 1, Min(n, Len(bits)))

\* Receiver::receive_random: B_i = b_i*G + c_i*A, the b_i drawn in order
\* from the receiver's RNG, pos scalars of which were drawn before.
receive_random(seed, pos, public_key, choices) ==
    [j \in 1 .. Len(choices) |->
        PointAdd(ScalarMul(Prg(seed, pos + j - 1), G),
                 IF choices[j] THEN public_key ELSE 0)]

\* The comparison of the simulated receiver's choices with the tape.
TapeDiffers_Never(blinded_choices, tape) == FALSE

TapeDiffers(blinded_choices, tape) == blinded_choices # tape.receiver_choices

verify_choices(tape, public_key, receiver_seed, reveal) ==
    IF ~tape.some
    THEN [kind |-> "TapeNotRecorded"]
    ELSE LET choices == TruncatedChoices(reveal, Len(tape.receiver_choices))
         IN  IF Len(tape.receiver_choices) # Len(choices)
             THEN [kind |-> "ChoiceCountMismatch",
                   expected |-> Len(tape.receiver_choices),
                   actual |-> Len(choices)]
             ELSE IF TapeDiffers(receive_random(receiver_seed, 0, public_key, choices), tape)
             THEN [kind |-> "InconsistentChoice"]
             ELSE [kind |-> "Ok", choices |-> choices]

\* Receiver::reveal: all choice bits made so far, packed LSB first.
RECURSIVE PackByte(_, _, _)
PackByte(choices, from, k) ==
    IF k = ByteBits \/ from + k > Len(choices) THEN 0
    ELSE (IF choices[from + k] THEN Pow2(k) ELSE 0) + PackByte(choices, from, k + 1)

reveal(choices) ==
    [b \in 1 .. ((Len(choices) + ByteBits - 1) \div ByteBits) |->
        PackByte(choices, ((b - 1) * ByteBits) + 1, 0)]

\* ------------------------------------------------------------------ state
VARIABLES
    config,        \* SenderConfig: [receiver_commit]
    sstate,        \* "Initialized", "Setup", "Consumed" (after verify_choices),
                   \* or "Panicked" (a send hit an overflow check)
    private_key, public_key,
    transfer_id,   \* state::Setup.transfer_id
    counter,       \* state::Setup.counter
    tape,          \* Option<Tape>: [some, receiver_choices]
    result,        \* what the last Sender operation returned
    reply,         \* the SenderPayload of the last successful send, until delivered
    r_state, r_seed, r_public, r_next_id, r_counter, r_pos,
    r_pending,     \* the batch the Receiver awaits the reply of
    r_choices,     \* every choice bit the Receiver made
    r_sent,        \* every ReceiverPayload the Receiver produced, in order
    r_reveal,      \* the ReceiverReveal, once the Receiver revealed
    r_out,         \* what the last receive_payload returned
    lastOp,        \* the operation that ran last
    call,          \* the last send's arguments: the id, whether the inputs and
                   \* the blinded choices were as many, and whether both were none
    vcall,         \* the arguments of verify_choices
    pre,           \* the Sender's fields before the last send
    okIds,         \* the ids carried by the successful sends, in call order
    tweaks,        \* the tweaks the successful sends hashed under, in order
    accepted,      \* the blinded choices of the successful sends of a Sender that
                   \* keeps a tape, in call order
    numSend        \* the number of calls to send since setup

svars == <<config, sstate, private_key, public_key, transfer_id, counter, tape, result, reply>>
rvars == <<r_state, r_seed, r_public, r_next_id, r_counter, r_pos, r_pending, r_choices,
           r_sent, r_reveal, r_out>>
gvars == <<lastOp, call, vcall, pre, okIds, tweaks, accepted, numSend>>
vars == <<svars, rvars, gvars>>

NoPending == [some |-> FALSE, id |-> 0, b |-> <<>>, c |-> <<>>, blinded |-> <<>>]
NoReply == [some |-> FALSE, id |-> 0, payload |-> <<>>, inputs |-> <<>>]
NoCall == [id |-> 0, count_ok |-> TRUE, empty |-> TRUE]

\* The Sender's fields, as pre keeps them.
Fields ==
    [transfer_id |-> transfer_id, counter |-> counter, tape |-> tape,
     private_key |-> private_key, public_key |-> public_key, config |-> config]
NoVCall == [seed |-> 0, reveal |-> <<>>]

\* Sender::new: a fresh keypair, a tape iff config.receiver_commit().
\* Receiver::new_with_seed: the Receiver's RNG seed.
Init ==
    /\ config \in [receiver_commit : BOOLEAN]
    /\ private_key \in Scalars
    /\ public_key = ScalarMul(private_key, G)
    /\ tape = NewTape(config)
    /\ sstate = "Initialized"
    /\ transfer_id = 0
    /\ counter = 0
    /\ result = [kind |-> "None"]
    /\ reply = NoReply
    /\ r_state = "Initialized"
    /\ r_seed \in Seeds
    /\ r_public = 0
    /\ r_next_id = 0
    /\ r_counter = 0
    /\ r_pos = 0
    /\ r_pending = NoPending
    /\ r_choices = <<>>
    /\ r_sent = <<>>
    /\ r_reveal = [some |-> FALSE, choices |-> <<>>]
    /\ r_out = [kind |-> "None"]
    /\ lastOp = "new"
    /\ call = NoCall
    /\ vcall = NoVCall
    /\ pre = Fields
    /\ okIds = <<>>
    /\ tweaks = <<>>
    /\ accepted = <<>>
    /\ numSend = 0

\* Sender::setup: Initialized -> Setup, transfer id default, counter 0.
Setup ==
    /\ sstate = "Initialized"
    /\ sstate' = "Setup"
    /\ transfer_id' = 0
    /\ counter' = 0
    /\ result' = [kind |-> "SenderSetup", public_key |-> public_key]
    /\ lastOp' = "setup"
    /\ UNCHANGED <<config, private_key, public_key, tape, reply>>
    /\ UNCHANGED rvars
    /\ UNCHANGED <<call, vcall, pre, okIds, tweaks, accepted, numSend>>

\* Sender<Setup>::send.  On Ok the SenderPayload {id, payload} is put in reply.
\* Where a usize sum overflows, a build with overflow checks panics at the
\* sum, after the tape was extended, and a build without them wraps.
send(inputs, receiver_payload) ==
    /\ sstate = "Setup"
    /\ transfer_id < MaxId
    /\ LET id == receiver_payload.id
           blinded_choices == receiver_payload.blinded_choices
           nx == TransferIdNext(transfer_id)
           expected_id == nx.value
           outcome == Precheck(id, expected_id, Len(inputs), Len(blinded_choices))
           keys == compute_encryption_keys(private_key, public_key, blinded_choices, counter)
           payload == Encrypt(inputs, keys)
       IN  /\ transfer_id' = current_id_after(nx, outcome)
           /\ tape' = tape_after(tape, blinded_choices, outcome)
           /\ pre' = Fields
           /\ call' = [id |-> id, count_ok |-> (Len(inputs) = Len(blinded_choices)),
                       empty |-> (Len(inputs) = 0 /\ Len(blinded_choices) = 0)]
           /\ lastOp' = "send"
           /\ numSend' = numSend + 1
           /\ IF outcome = "IdMismatch"
              THEN /\ result' = [kind |-> "IdMismatch", expected |-> expected_id, actual |-> id]
                   /\ UNCHANGED <<sstate, counter, reply, okIds, tweaks, accepted>>
              ELSE IF outcome = "CountMismatch"
              THEN /\ result' = [kind |-> "CountMismatch", inputs |-> Len(inputs),
                                 choices |-> Len(blinded_choices)]
                   /\ UNCHANGED <<sstate, counter, reply, okIds, tweaks, accepted>>
              ELSE \E overflow_checks \in
                        (IF Overflows(counter, Len(inputs)) THEN BOOLEAN ELSE {FALSE}) :
                      IF overflow_checks
                      THEN /\ sstate' = "Panicked"
                           /\ result' = [kind |-> "Panic"]
                           /\ UNCHANGED <<counter, reply, okIds, tweaks, accepted>>
                      ELSE /\ counter' = AdvanceCounter(counter, inputs)
                           /\ result' = [kind |-> "Ok", id |-> id]
                           /\ reply' = [some |-> TRUE, id |-> id, payload |-> payload,
                                        inputs |-> inputs]
                           /\ okIds' = Append(okIds, id)
                           /\ tweaks' = tweaks \o BatchTweaks(blinded_choices, counter)
                           /\ accepted' = IF tape.some THEN accepted \o blinded_choices ELSE accepted
                           /\ UNCHANGED sstate
    /\ UNCHANGED <<config, private_key, public_key, vcall>>
    /\ UNCHANGED rvars

\* Sender<Setup>::verify_choices: takes the Sender by value.  The Sender is
\* gone afterwards, and with it the record of its last send.
VerifyChoices(receiver_seed, receiver_reveal) ==
    /\ sstate = "Setup"
    /\ sstate' = "Consumed"
    /\ result' = verify_choices(tape, public_key, receiver_seed, receiver_reveal)
    /\ vcall' = [seed |-> receiver_seed, reveal |-> receiver_reveal]
    /\ lastOp' = "verify_choices"
    /\ reply' = NoReply
    /\ call' = NoCall
    /\ pre' = Fields
    /\ UNCHANGED <<config, private_key, public_key, transfer_id, counter, tape>>
    /\ UNCHANGED rvars
    /\ UNCHANGED <<okIds, tweaks, accepted, numSend>>

\* Receiver::setup(SenderSetup): stores A, next_id = 0, counter = 0.
ReceiverSetup ==
    /\ r_state = "Initialized"
    /\ sstate # "Initialized"
    /\ r_state' = "Setup"
    /\ r_public' = public_key
    /\ r_next_id' = 0
    /\ r_counter' = 0
    /\ lastOp' = "receiver_setup"
    /\ UNCHANGED <<r_seed, r_pos, r_pending, r_choices, r_sent, r_reveal, r_out>>
    /\ UNCHANGED svars
    /\ UNCHANGED <<call, vcall, pre, okIds, tweaks, accepted, numSend>>

\* Receiver::receive(choices): blinds the choices, tags them with next_id.next().
\* One batch at a time: the contract forbids overlapping batches.
Receive(choices) ==
    /\ r_state = "Setup"
    /\ ~r_pending.some
    /\ r_next_id < MaxId
    /\ r_pos + Len(choices) <= MaxCounter
    /\ LET nx == TransferIdNext(r_next_id)
           blinded == receive_random(r_seed, r_pos, r_public, choices)
       IN  /\ r_next_id' = nx.stored
           /\ r_pending' = [some |-> TRUE, id |-> nx.value,
                            b |-> [j \in 1 .. Len(choices) |-> Prg(r_seed, r_pos + j - 1)],
                            c |-> choices,
                            blinded |-> blinded]
           /\ r_sent' = Append(r_sent, [id |-> nx.value, blinded_choices |-> blinded])
    /\ r_pos' = r_pos + Len(choices)
    /\ r_choices' = r_choices \o choices
    /\ lastOp' = "receive"
    /\ UNCHANGED <<r_state, r_seed, r_public, r_counter, r_reveal, r_out>>
    /\ UNCHANGED svars
    /\ UNCHANGED <<call, vcall, pre, okIds, tweaks, accepted, numSend>>

\* Receiver::receive_payload(SenderPayload): decrypts the chosen slot of each pair.
ReceivePayload ==
    /\ r_state = "Setup"
    /\ reply.some
    /\ reply' = [reply EXCEPT !.some = FALSE]
    /\ lastOp' = "receive_payload"
    /\ IF ~r_pending.some \/ reply.id # r_pending.id
       THEN /\ r_out' = [kind |-> "IdMismatch"]
            /\ UNCHANGED <<r_counter, r_pending>>
       ELSE IF Len(reply.payload) # Len(r_pending.b)
       THEN /\ r_out' = [kind |-> "CountMismatch"]
            /\ UNCHANGED <<r_counter, r_pending>>
       ELSE /\ r_out' = [kind |-> "Ok",
                         blocks |-> [j \in 1 .. Len(r_pending.b) |->
                            BlockXor(reply.payload[j][IF r_pending.c[j] THEN 2 ELSE 1],
                                     hash_point(ScalarMul(r_pending.b[j], r_public),
                                                r_counter + j - 1))]]
            /\ r_counter' = r_counter + Len(r_pending.b)
            /\ r_pending' = NoPending
    /\ UNCHANGED <<r_state, r_seed, r_public, r_next_id, r_pos, r_choices, r_sent, r_reveal>>
    /\ UNCHANGED <<config, sstate, private_key, public_key, transfer_id, counter, tape, result>>
    /\ UNCHANGED <<call, vcall, pre, okIds, tweaks, accepted, numSend>>

\* Receiver::reveal(self): the Receiver, agreed to commit, gives up its choices.
Reveal ==
    /\ r_state = "Setup"
    /\ config.receiver_commit
    /\ r_state' = "Revealed"
    /\ r_reveal' = [some |-> TRUE, choices |-> reveal(r_choices)]
    /\ lastOp' = "reveal"
    /\ UNCHANGED <<r_seed, r_public, r_next_id, r_counter, r_pos, r_pending, r_choices,
                   r_sent, r_out>>
    /\ UNCHANGED svars
    /\ UNCHANGED <<call, vcall, pre, okIds, tweaks, accepted, numSend>>

\* ---------------------------------------------------------- specifications
\* Spec: one Sender, send called with every payload and every input length.
\* The points its callers put in a payload: the identity and the base point.
PayloadPoints == {0, G}
ReceiverPayloads == [id : Ids, blinded_choices : SeqsUpTo(PayloadPoints, MaxBatch)]

SenderInit == Init /\ r_seed = 0

Next ==
    \/ Setup
    \/ \E inputs \in InputVecs, rp \in ReceiverPayloads :
          counter + Len(inputs) <= MaxCounter /\ send(inputs, rp)
    \/ \E seed \in Seeds, rv \in Reveals : VerifyChoices(seed, rv)

Spec == SenderInit /\ [][Next]_vars

\* SessionSpec: the Sender served by a Receiver.  The payloads handed to send
\* are the ones the Receiver produced (the current one, or an earlier one
\* replayed), with input vectors of any length; the Receiver's reveal ends the
\* transfers, and the Sender verifies the reveal under the Receiver's seed.
SentPayloads == {r_sent[k] : k \in 1 .. Len(r_sent)}

SessionNext ==
    \/ Setup
    \/ ReceiverSetup
    \/ \E choices \in SeqsUpTo(BOOLEAN, MaxBatch) : Receive(choices)
    \/ ~r_reveal.some /\ \E inputs \in InputVecs, rp \in SentPayloads :
          counter + Len(inputs) <= MaxCounter /\ send(inputs, rp)
    \/ ReceivePayload
    \/ Reveal
    \/ r_reveal.some /\ VerifyChoices(r_seed, r_reveal.choices)

SessionSpec == Init /\ [][SessionNext]_vars

\* OverflowSpec: one Sender served past the width of its counter: send called
\* as in Spec, without the cap on the OTs of a run.
OverflowNext ==
    \/ Setup
    \/ \E inputs \in InputVecs, rp \in ReceiverPayloads : send(inputs, rp)

OverflowSpec == SenderInit /\ [][OverflowNext]_vars

\* ------------------------------------------------------------------ claims
SendFailed == lastOp = "send" /\ result.kind \in {"IdMismatch", "CountMismatch"}

\* The choice bits of the batch the Receiver decrypted last.
LastBatchChoices(n) == SubSeq(r_choices, Len(r_choices) - n + 1, Len(r_choices))

\* C1: with an honest Sender and Receiver on the same public key, the blocks
\* receive_payload recovers from the reply of send(M, receive(c)) are
\* M[i][c_i] for every i of the batch, in order, whatever the batch.
C1_Correctness ==
    (lastOp = "receive_payload" /\ r_out.kind = "Ok") =>
        LET n == Len(reply.inputs)
            c == LastBatchChoices(n)
        IN  r_out.blocks = [j \in 1 .. n |-> reply.inputs[j][IF c[j] THEN 2 ELSE 1]]

\* A second batch, of two OTs with different choice bits, was decrypted.
C1_Witness ==
    /\ lastOp = "receive_payload" /\ r_out.kind = "Ok"
    /\ Len(r_out.blocks) = 2 /\ r_counter = 3 /\ Len(okIds) = 2
    /\ r_choices[2] # r_choices[3]
    /\ private_key # 0

\* C2: a send whose payload carries an id other than the expected one returns
\* IdMismatch(expected, actual) and leaves the Sender's expected transfer id,
\* counter and tape as they were before the call.
C2_IdMismatchLeavesState ==
    (lastOp = "send" /\ call.id # pre.transfer_id) =>
        /\ result = [kind |-> "IdMismatch", expected |-> pre.transfer_id, actual |-> call.id]
        /\ transfer_id = pre.transfer_id
        /\ counter = pre.counter
        /\ tape = pre.tape

\* C3: a send with the expected id but a number of inputs other than the
\* number of blinded choices returns CountMismatch and leaves the Sender's
\* expected transfer id, counter and tape as they were before the call.
C3_CountMismatchLeavesState ==
    (lastOp = "send" /\ call.id = pre.transfer_id /\ ~call.count_ok) =>
        /\ result.kind = "CountMismatch"
        /\ result.inputs # result.choices
        /\ transfer_id = pre.transfer_id
        /\ counter = pre.counter
        /\ tape = pre.tape

\* C4: after a send that failed while the Sender expected id e, a following
\* send that carries id e with as many inputs as blinded choices succeeds.
C4_RetrySucceeds ==
    [][(/\ SendFailed
        /\ lastOp' = "send"
        /\ call'.id = pre.transfer_id
        /\ call'.count_ok) => result'.kind = "Ok"]_vars

\* C5: the ids carried by the successful sends are 0, 1, 2, ... in call order
\* without a gap, and the Sender's next expected id is the number of
\* successful sends so far.
C5_IdsWithoutGap ==
    /\ okIds = [j \in 1 .. Len(okIds) |-> j - 1]
    /\ transfer_id = Len(okIds)

\* C6: once the reply of a successful send has been processed by the
\* Receiver's receive_payload, the Sender's next id equals the Receiver's
\* and the Sender's counter equals the Receiver's, in every run.
C6_Lockstep ==
    (lastOp = "receive_payload" /\ r_out.kind = "Ok") =>
        /\ transfer_id = r_next_id
        /\ counter = r_counter

\* C7: with receiver_commit on, an honest Receiver that reveals its seed and
\* its choices passes verify_choices: the call returns Ok with exactly the
\* choice bits of the batches served, in order.
C7_HonestRevealPasses ==
    (lastOp = "verify_choices" /\ config.receiver_commit) =>
        result = [kind |-> "Ok", choices |-> SubSeq(r_choices, 1, counter)]

\* Two batches were served, every choice the Receiver made is returned.
C7_Witness ==
    /\ lastOp = "verify_choices" /\ result.kind = "Ok"
    /\ Len(okIds) = 2 /\ counter = 3
    /\ result.choices = r_choices
    /\ r_choices[1] # r_choices[3]

\* The blinded choices a Receiver seeded with the revealed seed produces for
\* the revealed choice bits, as many of them as the tape holds.
RevealedBlinded ==
    receive_random(vcall.seed, 0, public_key,
                   TruncatedChoices(vcall.reveal, Len(tape.receiver_choices)))

TapeNotProducible ==
    lastOp = "verify_choices" /\ tape.some /\ RevealedBlinded # tape.receiver_choices

\* C8 as stated: if the tape differs from the blinded choices the revealed
\* seed and choice bits produce, verify_choices returns InconsistentChoice.
C8_Original == TapeNotProducible => result.kind = "InconsistentChoice"

\* C8: if the tape differs from the blinded choices the revealed seed and
\* choice bits produce, verify_choices returns ChoiceCountMismatch when the
\* reveal has fewer bits than the tape and InconsistentChoice otherwise, never Ok.
C8_TamperDetected ==
    TapeNotProducible =>
        result.kind = IF Len(BitsLsb0(vcall.reveal)) < Len(tape.receiver_choices)
                      THEN "ChoiceCountMismatch"
                      ELSE "InconsistentChoice"

\* A tape of two batches, one point of which the revealed seed does not give.
C8_Witness ==
    /\ TapeNotProducible
    /\ result.kind = "InconsistentChoice"
    /\ Len(okIds) = 2 /\ counter = 3
    /\ \E k \in 1 .. 3 :
          /\ RevealedBlinded[k] # tape.receiver_choices[k]
          /\ \A m \in (1 .. 3) \ {k} : RevealedBlinded[m] = tape.receiver_choices[m]

\* C9: whenever receiver_commit is on, the length of the tape equals counter,
\* after any sequence of successful and failed sends.
C9_TapeLength ==
    config.receiver_commit =>
        tape.some /\ Len(tape.receiver_choices) = counter

\* A failed send after two successful ones, three OTs on the tape.
C9_Witness ==
    /\ config.receiver_commit /\ sstate = "Setup"
    /\ SendFailed /\ Len(okIds) = 2 /\ counter = 3

\* C10: no two OT instances served by successful sends use the same tweak:
\* instance i of a batch uses counter + i, counter being the number of OTs
\* served before the batch, so the tweaks of a session are 0, 1, 2, ...
C10_TweaksDistinct ==
    /\ \A i, j \in 1 .. Len(tweaks) : i # j => tweaks[i] # tweaks[j]
    /\ tweaks = [j \in 1 .. counter |-> j - 1]

\* Two batches, the second of two OTs, one point served twice.
C10_Witness ==
    /\ Len(okIds) = 2 /\ Len(tweaks) = 3
    /\ lastOp = "send" /\ result.kind = "Ok"
    /\ counter - pre.counter = 2
    /\ tape.some /\ tape.receiver_choices[1] = tape.receiver_choices[3]

\* C11: a Sender built with receiver_commit off has no tape in any reachable
\* state and its verify_choices returns TapeNotRecorded whatever the seed and
\* the reveal; a Sender built with receiver_commit on has a tape in every
\* reachable state.
C11_TapeIffCommit ==
    /\ tape.some = config.receiver_commit
    /\ (lastOp = "verify_choices" /\ ~config.receiver_commit) =>
           result = [kind |-> "TapeNotRecorded"]

\* verify_choices with a one-byte reveal, after two batches served without a tape.
C11_Witness ==
    /\ ~config.receiver_commit /\ lastOp = "verify_choices"
    /\ result.kind = "TapeNotRecorded"
    /\ Len(okIds) = 2 /\ counter = 3
    /\ vcall.reveal # <<>> /\ vcall.seed # 0

\* C12: a send with the expected id, no inputs and no blinded choices
\* succeeds, advances the expected id by exactly one, leaves counter and the
\* tape unchanged, and returns an empty payload carrying the request's id.
C12_EmptyBatch ==
    (lastOp = "send" /\ call.id = pre.transfer_id /\ call.empty) =>
        /\ result = [kind |-> "Ok", id |-> call.id]
        /\ transfer_id = pre.transfer_id + 1
        /\ counter = pre.counter
        /\ tape = pre.tape
        /\ reply = [some |-> TRUE, id |-> call.id, payload |-> <<>>, inputs |-> <<>>]

\* An empty batch served after a batch of two, on a Sender that keeps a tape.
C12_Witness ==
    /\ lastOp = "send" /\ call.empty /\ result.kind = "Ok"
    /\ call.id = 1 /\ pre.counter = 2
    /\ tape.some /\ Len(tape.receiver_choices) = 2

\* C13: when counter + n would exceed the maximum of the counter's width, send
\* refuses the batch instead of wrapping: counter never decreases over a
\* send, and the tweaks of the OTs served are 0, 1, 2, ..., none of them
\* reduced modulo the width.
C13_NoWrap ==
    /\ lastOp = "send" => counter >= pre.counter
    /\ tweaks = [j \in 1 .. Len(tweaks) |-> j - 1]

\* C16: with receiver_commit on, the tape is the concatenation, in call
\* order, of the blinded choices of exactly the successful sends: every send
\* leaves the previous tape as a prefix of the new one, and a failed send
\* appends nothing.
C16_TapeIsAccepted ==
    config.receiver_commit =>
        /\ tape.receiver_choices = accepted
        /\ lastOp = "send" =>
              /\ Len(pre.tape.receiver_choices) <= Len(tape.receiver_choices)
              /\ SubSeq(tape.receiver_choices, 1, Len(pre.tape.receiver_choices))
                     = pre.tape.receiver_choices
        /\ SendFailed => tape = pre.tape

\* A failed send after batches of different points were recorded.
C16_Witness ==
    /\ config.receiver_commit /\ SendFailed
    /\ Len(okIds) = 2 /\ Len(tape.receiver_choices) = 3
    /\ tape.receiver_choices[1] # tape.receiver_choices[2]
    /\ tape.receiver_choices[2] = tape.receiver_choices[3]

\* The reveal with every bit from the n-th on (0-based, LSB first) cleared.
MaskReveal(bytes, n) ==
    [b \in 1 .. Len(bytes) |->
        LET keep == n - ((b - 1) * ByteBits)
        IN  IF keep <= 0 THEN 0
            ELSE IF keep >= ByteBits THEN bytes[b]
            ELSE bytes[b] % Pow2(keep)]

\* C17: verify_choices on a tape of length L uses only the first L bits, LSB
\* first, of the revealed bytes: a reveal of fewer than L bits returns
\* ChoiceCountMismatch(L, number of revealed bits); a reveal of L bits or more
\* is checked on its first L bits alone, returns those bits on Ok, and has
\* the outcome of the same reveal with the excess bits cleared.
C17_RevealTruncated ==
    (lastOp = "verify_choices" /\ tape.some) =>
        LET L == Len(tape.receiver_choices)
            bits == BitsLsb0(vcall.reveal)
        IN  IF Len(bits) < L
            THEN result = [kind |-> "ChoiceCountMismatch", expected |-> L,
                           actual |-> Len(bits)]
            ELSE /\ result.kind \in {"Ok", "InconsistentChoice"}
                 /\ result.kind = "Ok" => result.choices = SubSeq(bits, 1, L)
                 /\ result = verify_choices(tape, public_key, vcall.seed,
                                            MaskReveal(vcall.reveal, L))

\* A reveal with a bit set past the two the tape has, accepted.
C17_Witness ==
    /\ lastOp = "verify_choices" /\ tape.some
    /\ Len(tape.receiver_choices) = 2
    /\ vcall.reveal # <<>> /\ vcall.reveal[1] >= 4
    /\ result.kind = "Ok" /\ result.choices[1]

\* C18: send checks the id first and the count second: a call with both an
\* unexpected id and a number of blinded choices other than the number of
\* inputs returns IdMismatch, and CountMismatch is returned only when the id
\* was the expected one.
C18_IdCheckedFirst ==
    lastOp = "send" =>
        /\ (call.id # pre.transfer_id /\ ~call.count_ok) => result.kind = "IdMismatch"
        /\ result.kind = "CountMismatch" => call.id = pre.transfer_id

\* A call wrong on both counts, after a successful send.
C18_Witness ==
    /\ lastOp = "send" /\ call.id # pre.transfer_id /\ ~call.count_ok
    /\ result.kind = "IdMismatch"
    /\ Len(okIds) = 1 /\ pre.transfer_id = 1

\* C19: every call to send, whether it returns Ok, IdMismatch or
\* CountMismatch, advances the Sender's transfer id by exactly one: after k
\* calls to send since setup the id the Sender expects next is k.
C19_EverySendAdvancesId ==
    /\ transfer_id = numSend
    /\ lastOp = "send" => transfer_id = pre.transfer_id + 1

\* Three calls, one of them successful, the last a CountMismatch.
C19_Witness ==
    /\ lastOp = "send" /\ result.kind = "CountMismatch"
    /\ numSend = 3 /\ Len(okIds) = 1 /\ transfer_id = 3

\* C20: a send that returns IdMismatch or CountMismatch leaves counter, the
\* tape, the private key, the public key and the config as they were before
\* the call, and no send changes the keypair, which stays A = a*G.
C20_FailedSendFrame ==
    /\ SendFailed =>
          /\ counter = pre.counter
          /\ tape = pre.tape
          /\ private_key = pre.private_key
          /\ public_key = pre.public_key
          /\ config = pre.config
    /\ lastOp = "send" =>
          /\ private_key = pre.private_key
          /\ public_key = pre.public_key
          /\ public_key = ScalarMul(private_key, G)

\* An IdMismatch on a Sender whose tape holds three blinded choices.
C20_Witness ==
    /\ SendFailed /\ result.kind = "IdMismatch"
    /\ pre.counter = 3 /\ tape.some /\ Len(tape.receiver_choices) = 3
    /\ private_key # 0

====
